---- MODULE Spec2Model ----
(***************************************************************************)
(* Children's cybersecurity quiz backend: the adaptive question selector,  *)
(* the answer submission protocol (attempt log, user stats, per-category   *)
(* progress, per-type performance, badges) and the category reset of       *)
(* src/server.js, over the schema and seed data of src/setup-database.js.  *)
(*                                                                         *)
(* The store is MySQL.  Two points of its semantics are modelled because   *)
(* the statements of the server depend on them:                            *)
(*  - the assignments of an UPDATE and of ON DUPLICATE KEY UPDATE are      *)
(*    evaluated left to right and a column reference on the right-hand     *)
(*    side reads the value already assigned by an earlier assignment of    *)
(*    the same statement;                                                  *)
(*  - statements issued outside a transaction are committed one by one     *)
(*    (autocommit), statements between beginTransaction and commit are     *)
(*    undone by rollback.                                                  *)
(* A handler is one step where a claim is about what it leaves behind, and  *)
(* a sequence of steps, one per await, where a claim is about connections  *)
(* of the pool or about requests served concurrently.                      *)
(* Columns that no statement of the server reads back (texts, icons,       *)
(* timestamps, time_taken, hint_used, avg_time_taken) are left out.        *)
(***************************************************************************)
EXTENDS Integers, Sequences, FiniteSets, Bags, TLC

\* Bound: attempts ever logged (guards POST /api/answers).
MaxAttempts == 3

\* Bound: attempts ever logged while any statement of a submission may fail.
MaxFaultAttempts == 2

---------------------------------------------------------------------------
\* Catalog (static reference data)

\* categories rows 1 and 2 of the seed.
Categories == {1, 2}

\* categories.total_questions of the seed rows.
total_questions(c) == 5

\* question_types rows of the seed.
QuestionTypes == 1..5

type_name(t) ==
    CASE t = 1 -> "multiple_choice"
      [] t = 2 -> "true_false"
      [] t = 3 -> "visual_choice"
      [] t = 4 -> "drag_drop"
      [] t = 5 -> "scenario_based"

difficulty_level(t) == IF t \in {1, 2, 3} THEN "easy" ELSE "medium"

\* questions: the five questions of category 1 and one question of category 2.
Questions == 1..6

category_id(q) == IF q <= 5 THEN 1 ELSE 2

\* question types of the seeded questions of a category: 1, 2, 1, 1, 2.
question_type_id(q) == IF q \in {2, 5} THEN 2 ELSE 1

\* every seeded question is worth 15 points.
points(q) == 15

\* questions.is_active, DEFAULT TRUE and never cleared by the seed.
is_active(q) == TRUE

\* answer_options: options 2q-1 (wrong) and 2q (right) belong to question q.
AnswerOptions == 1..12

option_question_id(o) == (o + 1) \div 2

is_correct(o) == o % 2 = 0

\* badges rows: the seed's requirement types, thresholds within the bounds.
Badges == 1..5

BadgeRow(b) ==
    CASE b = 1 -> [requirement_type |-> "questions_answered", requirement_value |-> 1, category_id |-> 0]
      [] b = 2 -> [requirement_type |-> "category_complete", requirement_value |-> 1, category_id |-> 1]
      [] b = 3 -> [requirement_type |-> "category_complete", requirement_value |-> 1, category_id |-> 2]
      [] b = 4 -> [requirement_type |-> "points", requirement_value |-> 30, category_id |-> 0]
      [] b = 5 -> [requirement_type |-> "streak", requirement_value |-> 2, category_id |-> 0]

---------------------------------------------------------------------------
\* Request inputs

\* A name is a sequence of characters; " " is whitespace.
NameInputs == {<<"a">>, <<" ", "a", " ">>, <<" ">>, <<>>}

\* An id no row has.
Unknown == 99

\* A request field that is absent (undefined in the request body).
Missing == 0

UserIdInputs == {1, Unknown}

\* The questions requests name: one of each type of category 1, the question
\* of category 2, and an id no question has.
QuestionInputs == {1, 2, 6, Unknown}

---------------------------------------------------------------------------
\* Store state: one variable per table the server writes, and the response
\* of the last request served.  Serving state: the requests in flight, each at
\* its await point, and the number of connections taken from the pool.

VARIABLES users, question_attempts, attempt_ids, user_progress,
          user_question_type_performance, user_badges, response,
          requests, pool

vars == <<users, question_attempts, attempt_ids, user_progress,
          user_question_type_performance, user_badges, response,
          requests, pool>>

\* connectionLimit of the pool (10 in dbConfig, fewer here).
connectionLimit == 3

\* The requests the server works on at a time.
Procs == {1, 2}

\* The requests in flight when as many are served as the pool has connections.
Slots == 1..connectionLimit

\* A slot that serves no request.
Idle == [op |-> "idle", pc |-> "idle", held |-> 0]

\* The serving state a handler taken as one step leaves alone.
serving == <<requests, pool>>

\* The tables as one value, the unit statements act on.
Store ==
    [users |-> users, question_attempts |-> question_attempts,
     attempt_ids |-> attempt_ids, user_progress |-> user_progress,
     user_question_type_performance |-> user_question_type_performance,
     user_badges |-> user_badges]

\* Store' = db
Commit(db) ==
    /\ users' = db.users
    /\ question_attempts' = db.question_attempts
    /\ attempt_ids' = db.attempt_ids
    /\ user_progress' = db.user_progress
    /\ user_question_type_performance' = db.user_question_type_performance
    /\ user_badges' = db.user_badges

Max(a, b) == IF a >= b THEN a ELSE b

\* Row k of a keyed table f is set to v (inserted or replaced).
Put(f, k, v) == [x \in DOMAIN f \cup {k} |-> IF x = k THEN v ELSE f[x]]

\* The rows of a keyed table f whose key is in keep.
Restrict(f, keep) == [x \in DOMAIN f \cap keep |-> f[x]]

\* Empty keyed table.
NoRows == [x \in {} |-> 0]

Init ==
    /\ users = NoRows
    /\ question_attempts = EmptyBag
    /\ attempt_ids = 0
    /\ user_progress = NoRows
    /\ user_question_type_performance = NoRows
    /\ user_badges = {}
    /\ response = [op |-> "none", status |-> 0]
    /\ requests = [p \in Slots |-> Idle]
    /\ pool = 0

---------------------------------------------------------------------------
\* POST /api/users

RECURSIVE TrimStart(_)
TrimStart(s) == IF s # <<>> /\ Head(s) = " " THEN TrimStart(Tail(s)) ELSE s

RECURSIVE TrimEnd(_)
TrimEnd(s) ==
    IF s # <<>> /\ s[Len(s)] = " " THEN TrimEnd(SubSeq(s, 1, Len(s) - 1)) ELSE s

\* Variant: the name is tested and stored as it was sent.
trimNothing(s) == s

\* String.prototype.trim
trim(s) == TrimEnd(TrimStart(s))

\* users row as INSERT INTO users (name) creates it (column defaults).
NewUserRow(name) ==
    [name |-> name, total_points |-> 0, current_streak |-> 0, best_streak |-> 0]

\* AUTO_INCREMENT id of the next users row.
NextUserId == Cardinality(DOMAIN users) + 1

CreateUser(name) ==
    IF trim(name) = <<>>
    THEN /\ response' = [op |-> "users", status |-> 400]
         /\ UNCHANGED <<users, question_attempts, attempt_ids, user_progress,
                        user_question_type_performance, user_badges, serving>>
    ELSE LET existing == {u \in DOMAIN users : users[u].name = trim(name)} IN
         IF existing # {}
         THEN /\ response' = [op |-> "users", status |-> 200,
                              user |-> CHOOSE u \in existing : \A v \in existing : u <= v]
              /\ UNCHANGED <<users, question_attempts, attempt_ids, user_progress,
                             user_question_type_performance, user_badges, serving>>
         ELSE /\ users' = Put(users, NextUserId, NewUserRow(trim(name)))
              /\ response' = [op |-> "users", status |-> 201, user |-> NextUserId]
              /\ UNCHANGED <<question_attempts, attempt_ids, user_progress,
                             user_question_type_performance, user_badges, serving>>

---------------------------------------------------------------------------
\* Badge awarder

\* Variant: the badge is reported and no row is inserted.
InsertUserBadgeNone(db, u, b) == db

\* user_badges has UNIQUE KEY (user_id, badge_id): the table is a set of pairs.
InsertUserBadge(db, u, b) == [db EXCEPT !.user_badges = @ \cup {<<u, b>>}]

\* SELECT COUNT(*) FROM question_attempts WHERE user_id = u
AttemptCount(db, u) ==
    BagCardinality(Restrict(db.question_attempts,
                            {r \in DOMAIN db.question_attempts : r.user_id = u}))

\* Variant: a category_complete badge asks for a progress row only.
shouldAwardStarted(db, u, stats, b) ==
    LET badge == BadgeRow(b) IN
    CASE badge.requirement_type = "points" ->
             stats.total_points >= badge.requirement_value
      [] badge.requirement_type = "streak" ->
             stats.current_streak >= badge.requirement_value
      [] badge.requirement_type = "questions_answered" ->
             AttemptCount(db, u) >= badge.requirement_value
      [] badge.requirement_type = "category_complete" ->
             /\ badge.category_id # 0
             /\ <<u, badge.category_id>> \in DOMAIN db.user_progress

\* The switch on badge.requirement_type; stats is the users row read before
\* the loop.
shouldAward(db, u, stats, b) ==
    LET badge == BadgeRow(b) IN
    CASE badge.requirement_type = "points" ->
             stats.total_points >= badge.requirement_value
      [] badge.requirement_type = "streak" ->
             stats.current_streak >= badge.requirement_value
      [] badge.requirement_type = "questions_answered" ->
             AttemptCount(db, u) >= badge.requirement_value
      [] badge.requirement_type = "category_complete" ->
             /\ badge.category_id # 0
             /\ <<u, badge.category_id>> \in DOMAIN db.user_progress
             /\ db.user_progress[<<u, badge.category_id>>].is_completed

\* The ids of a set of badges in primary-key order.
RECURSIVE InIdOrder(_)
InIdOrder(S) ==
    IF S = {} THEN <<>>
    ELSE LET m == CHOOSE x \in S : \A y \in S : x <= y
         IN <<m>> \o InIdOrder(S \ {m})

\* for (const badge of badges): badges[i..] are still to be examined, newBadges
\* are pushed so far; a query fails while badge number bfail is examined and
\* the catch block returns [].
RECURSIVE AwardLoop(_, _, _, _, _, _, _)
AwardLoop(db, u, stats, badges, i, bfail, newBadges) ==
    IF i > Len(badges) THEN [db |-> db, newBadges |-> newBadges]
    ELSE IF i = bfail THEN [db |-> db, newBadges |-> <<>>]
    ELSE IF shouldAward(db, u, stats, badges[i])
         THEN IF <<u, badges[i]>> \in db.user_badges
              THEN [db |-> db, newBadges |-> <<>>]
              ELSE AwardLoop(InsertUserBadge(db, u, badges[i]), u, stats, badges,
                             i + 1, bfail, Append(newBadges, badges[i]))
         ELSE AwardLoop(db, u, stats, badges, i + 1, bfail, newBadges)

\* checkAndAwardBadges(userId) once it holds its connection: the store it
\* leaves and the list it returns.
checkAndAwardBadges(db, u, bfail) ==
    IF u \notin DOMAIN db.users THEN [db |-> db, newBadges |-> <<>>]
    ELSE LET badges == InIdOrder({b \in Badges : <<u, b>> \notin db.user_badges})
         IN AwardLoop(db, u, db.users[u], badges, 1, bfail, <<>>)

---------------------------------------------------------------------------
\* POST /api/answers

\* INSERT INTO question_attempts; the table is a bag of rows and attempt_ids
\* the AUTO_INCREMENT value of its id column (the ids given out so far).
InsertAttempt(db, u, q, a, isCorrect) ==
    [db EXCEPT !.question_attempts =
        @ (+) SetToBag({[user_id |-> u, question_id |-> q,
                         question_type_id |-> question_type_id(q),
                         selected_answer_id |-> a, is_correct |-> isCorrect]}),
               !.attempt_ids = @ + 1]

\* Variant: best_streak is left out of the UPDATE.
UpdateUserStatsNoBest(db, u, isCorrect, pointsEarned) ==
    IF isCorrect
    THEN [db EXCEPT !.users[u].total_points = @ + pointsEarned,
                    !.users[u].current_streak = @ + 1]
    ELSE [db EXCEPT !.users[u].current_streak = 0]

\* UPDATE users SET total_points = total_points + ?,
\*     current_streak = current_streak + 1,
\*     best_streak = GREATEST(best_streak, current_streak + 1)
\* (current_streak in the third assignment is the value the second assigned),
\* or UPDATE users SET current_streak = 0.
UpdateUserStats(db, u, isCorrect, pointsEarned) ==
    IF isCorrect
    THEN LET old == db.users[u]
             cs  == old.current_streak + 1
         IN [db EXCEPT !.users[u] =
                [old EXCEPT !.total_points = @ + pointsEarned,
                            !.current_streak = cs,
                            !.best_streak = Max(@, cs + 1)]]
    ELSE [db EXCEPT !.users[u].current_streak = 0]

\* Variant: only a correct answer counts as a question answered.
UpsertProgressCorrectOnly(db, u, c, isCorrect, pointsEarned) ==
    LET k == <<u, c>>
        one == IF isCorrect THEN 1 ELSE 0
    IN IF k \notin DOMAIN db.user_progress
       THEN [db EXCEPT !.user_progress =
                Put(@, k, [questions_answered |-> one, correct_answers |-> one,
                           points_earned |-> pointsEarned, is_completed |-> FALSE])]
       ELSE [db EXCEPT !.user_progress[k].questions_answered = @ + one,
                       !.user_progress[k].correct_answers = @ + one,
                       !.user_progress[k].points_earned = @ + pointsEarned]

\* INSERT INTO user_progress ... ON DUPLICATE KEY UPDATE ...: a new row keeps
\* the column default is_completed = FALSE; on an existing row questions_answered
\* is assigned first and the CASE of is_completed reads the assigned value.
UpsertProgress(db, u, c, isCorrect, pointsEarned) ==
    LET k == <<u, c>>
        one == IF isCorrect THEN 1 ELSE 0
    IN IF k \notin DOMAIN db.user_progress
       THEN [db EXCEPT !.user_progress =
                Put(@, k, [questions_answered |-> 1, correct_answers |-> one,
                           points_earned |-> pointsEarned, is_completed |-> FALSE])]
       ELSE LET old == db.user_progress[k]
                qa  == old.questions_answered + 1
            IN [db EXCEPT !.user_progress[k] =
                   [questions_answered |-> qa,
                    correct_answers |-> old.correct_answers + one,
                    points_earned |-> old.points_earned + pointsEarned,
                    is_completed |-> (qa + 1) >= total_questions(c)]]

\* n / d * 100 as DECIMAL(5,2), in hundredths of a percent (rounded half up).
Percent(n, d) == (2 * 10000 * n + d) \div (2 * d)

\* INSERT INTO user_question_type_performance ... ON DUPLICATE KEY UPDATE ...:
\* a new row keeps the column default success_rate = 0.00; on an existing row
\* total_attempts and correct_attempts are assigned first and the expression
\* of success_rate reads the assigned values.
UpsertPerformance(db, u, t, isCorrect) ==
    LET k == <<u, t>>
        one == IF isCorrect THEN 1 ELSE 0
    IN IF k \notin DOMAIN db.user_question_type_performance
       THEN [db EXCEPT !.user_question_type_performance =
                Put(@, k, [total_attempts |-> 1, correct_attempts |-> one,
                           success_rate |-> 0])]
       ELSE LET old == db.user_question_type_performance[k]
                ta  == old.total_attempts + 1
                ca  == old.correct_attempts + one
            IN [db EXCEPT !.user_question_type_performance[k] =
                   [total_attempts |-> ta, correct_attempts |-> ca,
                    success_rate |-> Percent(ca + one, ta + 1)]]

\* The statements of the handler in order; fail names the one that throws.
StmtGetConnection == 1
StmtSelectQuestion == 2
StmtSelectOption == 3
StmtInsertAttempt == 4
StmtUpdateUser == 5
StmtUpsertProgress == 6
StmtUpsertPerformance == 7
StmtAwardConnection == 8
StmtSelectCorrectAnswer == 9
NoFailure == 0

AnswerFailPoints == 0..9

\* catch (error): res.status(500); the statements executed before are
\* committed (no transaction is open).
AnswerError(db, u) ==
    [db |-> db, response |-> [op |-> "answers", status |-> 500, userId |-> u]]

\* res.status(400) of the two lookups.
AnswerNotFound(db, u) ==
    [db |-> db, response |-> [op |-> "answers", status |-> 400, userId |-> u]]

\* The handler run on store db: the store it leaves and its response.
submitAnswer(db, u, q, a, fail, bfail) ==
    IF fail \in {StmtGetConnection, StmtSelectQuestion} THEN AnswerError(db, u)
    ELSE IF q \notin Questions THEN AnswerNotFound(db, u)
    ELSE IF fail = StmtSelectOption THEN AnswerError(db, u)
    ELSE IF a \notin AnswerOptions THEN AnswerNotFound(db, u)
    ELSE
      LET isCorrect    == is_correct(a)
          pointsEarned == IF isCorrect THEN points(q) ELSE 0
          db4 == InsertAttempt(db, u, q, a, isCorrect)
          db5 == UpdateUserStats(db4, u, isCorrect, pointsEarned)
          db6 == UpsertProgress(db5, u, category_id(q), isCorrect, pointsEarned)
          db7 == UpsertPerformance(db6, u, question_type_id(q), isCorrect)
          aw  == checkAndAwardBadges(db7, u, bfail)
      IN
      \* the foreign key on question_attempts.user_id rejects an unknown user
      IF fail = StmtInsertAttempt \/ u \notin DOMAIN db.users THEN AnswerError(db, u)
      ELSE IF fail = StmtUpdateUser THEN AnswerError(db4, u)
      ELSE IF fail = StmtUpsertProgress THEN AnswerError(db5, u)
      ELSE IF fail = StmtUpsertPerformance THEN AnswerError(db6, u)
      ELSE IF fail = StmtAwardConnection THEN AnswerError(db7, u)
      ELSE IF fail = StmtSelectCorrectAnswer THEN AnswerError(aw.db, u)
      ELSE [db |-> aw.db,
            response |-> [op |-> "answers", status |-> 200, userId |-> u,
                          questionId |-> q, isCorrect |-> isCorrect,
                          pointsEarned |-> pointsEarned,
                          newBadges |-> aw.newBadges]]

\* The options a request for question q selects: the two of q, the right
\* option of another question, and an id no option has.
OptionInputs(q) ==
    {o \in AnswerOptions : option_question_id(o) = q}
        \cup {2 * ((q % 6) + 1)} \cup {Unknown}

SubmitAnswer(u, q, a, fail, bfail) ==
    /\ LET r == submitAnswer(Store, u, q, a, fail, bfail)
       IN /\ Commit(r.db)
          /\ response' = r.response
    /\ UNCHANGED serving

---------------------------------------------------------------------------
\* Adaptive question selector

\* The value returned when no question is left.
NoQuestion == 0

\* ORDER BY utqp.success_rate ASC, utqp.total_attempts ASC over the LEFT JOIN:
\* a type without a performance row has NULL in both columns and NULL sorts
\* first.
SortKey(db, u, t) ==
    IF <<u, t>> \in DOMAIN db.user_question_type_performance
    THEN <<db.user_question_type_performance[<<u, t>>].success_rate,
           db.user_question_type_performance[<<u, t>>].total_attempts>>
    ELSE <<-1, -1>>

KeyLeq(k1, k2) == k1[1] < k2[1] \/ (k1[1] = k2[1] /\ k1[2] <= k2[2])

\* Variant: the order is descending.
HeadTypesLast(db, u) ==
    {t \in QuestionTypes :
        \A t2 \in QuestionTypes : KeyLeq(SortKey(db, u, t2), SortKey(db, u, t))}

\* The types performance[0] may be (ties are in no defined order).
HeadTypes(db, u) ==
    {t \in QuestionTypes :
        \A t2 \in QuestionTypes : KeyLeq(SortKey(db, u, t), SortKey(db, u, t2))}

\* COALESCE(utqp.success_rate, 0), COALESCE(utqp.total_attempts, 0)
SuccessRate(db, u, t) ==
    IF <<u, t>> \in DOMAIN db.user_question_type_performance
    THEN db.user_question_type_performance[<<u, t>>].success_rate ELSE 0

TotalAttempts(db, u, t) ==
    IF <<u, t>> \in DOMAIN db.user_question_type_performance
    THEN db.user_question_type_performance[<<u, t>>].total_attempts ELSE 0

\* p.success_rate < 60 && p.total_attempts >= 3
IsStruggling(db, u, t) ==
    SuccessRate(db, u, t) < 6000 /\ TotalAttempts(db, u, t) >= 3

\* WHERE difficulty_level = 'easy' AND type_name IN ('visual_choice', 'true_false')
EasierTypes ==
    {t \in QuestionTypes : /\ difficulty_level(t) = "easy"
                           /\ type_name(t) \in {"visual_choice", "true_false"}}

\* The values targetQuestionTypeId may have when the question is queried.
TargetTypes(db, u) ==
    IF (\E t \in QuestionTypes : IsStruggling(db, u, t)) /\ EasierTypes # {}
    THEN EasierTypes
    ELSE HeadTypes(db, u)

\* Variant: only the correct attempts exclude a question.
NotAttemptedCorrectOnly(db, u, q) ==
    \A r \in DOMAIN db.question_attempts :
        ~(r.user_id = u /\ r.question_id = q /\ r.is_correct)

\* q.id NOT IN (SELECT question_id FROM question_attempts WHERE user_id = ?)
NotAttempted(db, u, q) ==
    \A r \in DOMAIN db.question_attempts : ~(r.user_id = u /\ r.question_id = q)

\* Variant: there is no fallback query.
FallbackQuestionsNone(db, u, c) == {}

\* The rows of the fallback query.
FallbackQuestions(db, u, c) ==
    {q \in Questions : category_id(q) = c /\ is_active(q) /\ NotAttempted(db, u, q)}

\* The rows of the target-type query.
TargetQuestions(db, u, c, t) ==
    {q \in Questions : /\ category_id(q) = c
                       /\ question_type_id(q) = t
                       /\ is_active(q)
                       /\ NotAttempted(db, u, q)}

\* The values returned once targetQuestionTypeId is t: a row of the
\* target-type query, else a row of the fallback query, else null.
questionsOfTarget(db, u, c, t) ==
    IF TargetQuestions(db, u, c, t) # {} THEN TargetQuestions(db, u, c, t)
    ELSE IF FallbackQuestions(db, u, c) # {} THEN FallbackQuestions(db, u, c)
    ELSE {NoQuestion}

\* Every value getAdaptiveQuestion(userId, categoryId) may return.
getAdaptiveQuestion(db, u, c) ==
    UNION {questionsOfTarget(db, u, c, t) : t \in TargetTypes(db, u)}

\* GET /api/questions/:userId/:categoryId
GetQuestion(u, c) ==
    /\ \E q \in getAdaptiveQuestion(Store, u, c) :
         response' = [op |-> "questions", status |-> 200, userId |-> u,
                      categoryId |-> c, question |-> q]
    /\ UNCHANGED <<users, question_attempts, attempt_ids, user_progress,
                   user_question_type_performance, user_badges, serving>>

---------------------------------------------------------------------------
\* POST /api/reset-progress

\* The attempts of user u on questions of category c.
InCategory(r, u, c) == r.user_id = u /\ category_id(r.question_id) = c

\* Variant: the attempts of the user are deleted whatever their category.
DeleteAttemptsEveryCategory(db, u, c) ==
    [db EXCEPT !.question_attempts =
        Restrict(@, {r \in DOMAIN @ : r.user_id # u})]

\* DELETE qa FROM question_attempts qa JOIN questions q ...
DeleteAttempts(db, u, c) ==
    [db EXCEPT !.question_attempts =
        Restrict(@, {r \in DOMAIN @ : ~InCategory(r, u, c)})]

\* DELETE FROM user_progress WHERE user_id = ? AND category_id = ?
DeleteProgress(db, u, c) ==
    [db EXCEPT !.user_progress = Restrict(@, DOMAIN @ \ {<<u, c>>})]

\* SELECT COUNT(*) FROM question_attempts qa2 JOIN questions q2 ... of type t,
\* evaluated on the store as the UPDATE finds it.
CategoryTypeCount(db, u, c, t, onlyCorrect) ==
    BagCardinality(Restrict(db.question_attempts,
        {r \in DOMAIN db.question_attempts :
            /\ InCategory(r, u, c)
            /\ r.question_type_id = t
            /\ (onlyCorrect => r.is_correct)}))

\* UPDATE user_question_type_performance utqp JOIN questions q ... SET
\*   total_attempts = GREATEST(0, total_attempts - (...)),
\*   correct_attempts = GREATEST(0, correct_attempts - (...)) WHERE user_id = ?
DecrementPerformance(db, u, c) ==
    [db EXCEPT !.user_question_type_performance =
        [k \in DOMAIN @ |->
            IF k[1] = u /\ (\E q \in Questions : question_type_id(q) = k[2])
            THEN [@[k] EXCEPT
                    !.total_attempts =
                        Max(0, @ - CategoryTypeCount(db, u, c, k[2], FALSE)),
                    !.correct_attempts =
                        Max(0, @ - CategoryTypeCount(db, u, c, k[2], TRUE))]
            ELSE @[k]]]

\* SELECT COALESCE(SUM(points_earned), 0) FROM user_progress WHERE user_id = ?
RECURSIVE SumPoints(_, _)
SumPoints(progress, keys) ==
    IF keys = {} THEN 0
    ELSE LET k == CHOOSE x \in keys : TRUE
         IN progress[k].points_earned + SumPoints(progress, keys \ {k})

PointsOfProgress(db, u) ==
    SumPoints(db.user_progress, {k \in DOMAIN db.user_progress : k[1] = u})

\* Variant: total_points is not written back.
SetTotalPointsKeep(db, u, total) == db

\* UPDATE users SET total_points = ? WHERE id = ?
SetTotalPoints(db, u, total) ==
    IF u \in DOMAIN db.users
    THEN [db EXCEPT !.users[u].total_points = total]
    ELSE db

\* Variant: the statements executed before the failure stay applied.
RollbackNothing(snapshot, working) == working

\* connection.rollback(): the store as it was at beginTransaction.
Rollback(snapshot, working) == snapshot

ResetGetConnection == 1
ResetBegin == 2
ResetDeleteAttempts == 3
ResetDeleteProgress == 4
ResetUpdatePerformance == 5
ResetSelectPoints == 6
ResetUpdateUser == 7
ResetCommit == 8

ResetFailPoints == 0..8

\* The handler run on store db: the store it leaves and its response.
resetProgress(db, u, c, fail) ==
    IF u = Missing \/ c = Missing
    THEN [db |-> db, response |-> [op |-> "reset", status |-> 400,
                                   userId |-> u, categoryId |-> c]]
    ELSE
      LET db3 == DeleteAttempts(db, u, c)
          db4 == DeleteProgress(db3, u, c)
          db5 == DecrementPerformance(db4, u, c)
          db7 == SetTotalPoints(db5, u, PointsOfProgress(db5, u))
          Failed(working) ==
              [db |-> Rollback(db, working),
               response |-> [op |-> "reset", status |-> 500,
                             userId |-> u, categoryId |-> c]]
      IN
      IF fail \in {ResetGetConnection, ResetBegin} THEN
          [db |-> db, response |-> [op |-> "reset", status |-> 500,
                                    userId |-> u, categoryId |-> c]]
      ELSE IF fail = ResetDeleteAttempts THEN Failed(db)
      ELSE IF fail = ResetDeleteProgress THEN Failed(db3)
      ELSE IF fail = ResetUpdatePerformance THEN Failed(db4)
      ELSE IF fail \in {ResetSelectPoints, ResetUpdateUser} THEN Failed(db5)
      ELSE IF fail = ResetCommit THEN Failed(db7)
      ELSE [db |-> db7, response |-> [op |-> "reset", status |-> 200,
                                      userId |-> u, categoryId |-> c]]

ResetProgress(u, c, fail) ==
    LET r == resetProgress(Store, u, c, fail)
    IN /\ Commit(r.db)
       /\ response' = r.response
       /\ UNCHANGED serving

---------------------------------------------------------------------------
\* Serving: the handlers statement by statement.  A step is what a handler
\* does between two awaits; ok tells whether the awaited statement succeeds
\* or throws.

\* No startup connection test is running (requests are served after it).
Listening ==
    \A p \in Procs : requests[p].op = "startup" => requests[p].pc = "done"

\* Slot p takes up a request.
Begin(p, request) ==
    /\ requests[p].pc \in {"idle", "done"}
    /\ requests' = [requests EXCEPT ![p] = request]
    /\ UNCHANGED <<users, question_attempts, attempt_ids, user_progress,
                   user_question_type_performance, user_badges, response, pool>>

\* await pool.getConnection() resolves: the request goes on at pc next.
GetConnection(p, next) ==
    /\ pool < connectionLimit
    /\ pool' = pool + 1
    /\ requests' = [requests EXCEPT ![p].held = @ + 1, ![p].pc = next]

\* connection.release() and the response: the request ends.
ReleaseAndEnd(p, status) ==
    /\ pool' = pool - 1
    /\ requests' = [requests EXCEPT ![p].held = @ - 1, ![p].pc = "done",
                                    ![p].status = status]

\* The response without a release: the request ends.
End(p, status) ==
    /\ requests' = [requests EXCEPT ![p].pc = "done", ![p].status = status]
    /\ UNCHANGED pool

\* finally { if (connection) connection.release(); } after the response.
Finally(p, status) ==
    IF requests[p].held > 0 THEN ReleaseAndEnd(p, status) ELSE End(p, status)

\* testDatabaseConnection(), called once before the server listens.
StartupTest(p, ok) ==
    \/ /\ requests = [x \in Slots |-> Idle]
       /\ pool = 0
       /\ ok
       /\ Begin(p, [op |-> "startup", pc |-> "getConnection", held |-> 0,
                    status |-> 0])
    \/ /\ requests[p].op = "startup"
       /\ UNCHANGED <<users, question_attempts, attempt_ids, user_progress,
                      user_question_type_performance, user_badges, response>>
       /\ \/ /\ requests[p].pc = "getConnection"
             /\ IF ok THEN GetConnection(p, "execute") ELSE End(p, 500)
          \/ /\ requests[p].pc = "execute"
             \* release() follows execute() inside the try, the catch has none
             /\ IF ok THEN ReleaseAndEnd(p, 200) ELSE End(p, 500)

\* GET /health
Health(p, ok) ==
    \/ /\ Listening
       /\ ok
       /\ Begin(p, [op |-> "health", pc |-> "getConnection", held |-> 0,
                    status |-> 0])
    \/ /\ requests[p].op = "health"
       /\ UNCHANGED <<users, question_attempts, attempt_ids, user_progress,
                      user_question_type_performance, user_badges, response>>
       /\ \/ /\ requests[p].pc = "getConnection"
             /\ IF ok THEN GetConnection(p, "execute") ELSE End(p, 200)
          \/ /\ requests[p].pc = "execute"
             \* release() follows execute() inside the try, the catch has none
             /\ IF ok THEN ReleaseAndEnd(p, 200) ELSE End(p, 200)

\* A request at pc goes on at pc next.
Goto(p, next) ==
    /\ requests' = [requests EXCEPT ![p].pc = next]
    /\ UNCHANGED pool

\* The tables, which a statement that only reads leaves alone.
tables == <<users, question_attempts, attempt_ids, user_progress,
            user_question_type_performance, user_badges>>

\* The locals of checkAndAwardBadges before the call and after its return.
NoAward ==
    [stats |-> [total_points |-> 0, current_streak |-> 0], badges |-> <<>>,
     i |-> 0, pushed |-> <<>>]

\* POST /api/answers as it starts: the request body and the handler's locals.
AnswerRequest(u, q, a) ==
    [op |-> "answers", pc |-> "getConnection", held |-> 0, status |-> 0,
     userId |-> u, questionId |-> q, selectedAnswerId |-> a,
     newBadges |-> <<>>, award |-> NoAward]

\* The statements of POST /api/answers up to the call of checkAndAwardBadges
\* and the one after it; each is committed as it is executed.
AnswerStatement(p, ok) ==
    LET r == requests[p]
        u == r.userId
        q == r.questionId
        a == r.selectedAnswerId
        isCorrect == is_correct(a)
        pointsEarned == IF isCorrect THEN points(q) ELSE 0
    IN
    /\ r.op = "answers"
    /\ UNCHANGED response
    /\ \/ /\ r.pc = "getConnection"
          /\ UNCHANGED tables
          /\ IF ok THEN GetConnection(p, "selectQuestion") ELSE Finally(p, 500)
       \/ /\ r.pc = "selectQuestion"
          /\ UNCHANGED tables
          /\ IF ~ok THEN Finally(p, 500)
             ELSE IF q \notin Questions THEN Finally(p, 400)
             ELSE Goto(p, "selectOption")
       \/ /\ r.pc = "selectOption"
          /\ UNCHANGED tables
          /\ IF ~ok THEN Finally(p, 500)
             ELSE IF a \notin AnswerOptions THEN Finally(p, 400)
             ELSE Goto(p, "insertAttempt")
       \/ /\ r.pc = "insertAttempt"
          /\ IF ~ok \/ u \notin DOMAIN users
             THEN UNCHANGED tables /\ Finally(p, 500)
             ELSE /\ Commit(InsertAttempt(Store, u, q, a, isCorrect))
                  /\ Goto(p, "updateUser")
       \/ /\ r.pc = "updateUser"
          /\ IF ~ok THEN UNCHANGED tables /\ Finally(p, 500)
             ELSE /\ Commit(UpdateUserStats(Store, u, isCorrect, pointsEarned))
                  /\ Goto(p, "upsertProgress")
       \/ /\ r.pc = "upsertProgress"
          /\ IF ~ok THEN UNCHANGED tables /\ Finally(p, 500)
             ELSE /\ Commit(UpsertProgress(Store, u, category_id(q), isCorrect,
                                           pointsEarned))
                  /\ Goto(p, "upsertPerformance")
       \/ /\ r.pc = "upsertPerformance"
          /\ IF ~ok THEN UNCHANGED tables /\ Finally(p, 500)
             ELSE /\ Commit(UpsertPerformance(Store, u, question_type_id(q),
                                              isCorrect))
                  /\ Goto(p, "awardConnection")
       \/ /\ r.pc = "selectCorrectAnswer"
          /\ UNCHANGED tables
          /\ Finally(p, IF ok THEN 200 ELSE 500)

\* return of checkAndAwardBadges (its finally releases its connection): the
\* handler goes on with the list returned.
AwardReturn(p, list) ==
    /\ pool' = pool - 1
    /\ requests' = [requests EXCEPT ![p].held = @ - 1,
                                    ![p].newBadges = list,
                                    ![p].award = NoAward,
                                    ![p].pc = "selectCorrectAnswer"]

\* The statements of checkAndAwardBadges(userId) called by POST /api/answers,
\* which holds its own connection meanwhile.  A badge is examined and
\* inserted in one step.
AwardStatement(p, ok) ==
    LET r == requests[p]
        u == r.userId
        w == r.award
    IN
    /\ r.op = "answers"
    /\ UNCHANGED response
    /\ \/ /\ r.pc = "awardConnection"
          /\ UNCHANGED tables
          \* getDbConnection() is called before the try: its error is the
          \* handler's
          /\ IF ok THEN GetConnection(p, "awardStats") ELSE Finally(p, 500)
       \/ /\ r.pc = "awardStats"
          /\ UNCHANGED tables
          /\ IF ~ok \/ u \notin DOMAIN users THEN AwardReturn(p, <<>>)
             ELSE /\ requests' =
                       [requests EXCEPT
                          ![p].award.stats =
                             [total_points |-> users[u].total_points,
                              current_streak |-> users[u].current_streak],
                          ![p].pc = "awardBadges"]
                  /\ UNCHANGED pool
       \/ /\ r.pc = "awardBadges"
          /\ UNCHANGED tables
          /\ IF ~ok THEN AwardReturn(p, <<>>)
             ELSE /\ requests' =
                       [requests EXCEPT
                          ![p].award.badges =
                             InIdOrder({b \in Badges : <<u, b>> \notin user_badges}),
                          ![p].award.i = 1,
                          ![p].pc = "awardLoop"]
                  /\ UNCHANGED pool
       \/ /\ r.pc = "awardLoop"
          /\ IF w.i > Len(w.badges)
             THEN ok /\ UNCHANGED tables /\ AwardReturn(p, w.pushed)
             ELSE IF ~ok THEN UNCHANGED tables /\ AwardReturn(p, <<>>)
             ELSE IF shouldAward(Store, u, w.stats, w.badges[w.i])
                  THEN IF <<u, w.badges[w.i]>> \in user_badges
                       \* Duplicate entry for key unique_user_badge
                       THEN UNCHANGED tables /\ AwardReturn(p, <<>>)
                       ELSE /\ Commit(InsertUserBadge(Store, u, w.badges[w.i]))
                            /\ requests' =
                                 [requests EXCEPT
                                    ![p].award.pushed = Append(@, w.badges[w.i]),
                                    ![p].award.i = @ + 1]
                            /\ UNCHANGED pool
                  ELSE /\ UNCHANGED tables
                       /\ requests' = [requests EXCEPT ![p].award.i = @ + 1]
                       /\ UNCHANGED pool

\* GET /api/questions/:userId/:categoryId as it starts.
QuestionRequest(u, c) ==
    [op |-> "questions", pc |-> "selectorConnection", held |-> 0, status |-> 0,
     userId |-> u, categoryId |-> c, question |-> NoQuestion]

\* GET /api/questions/:userId/:categoryId: getAdaptiveQuestion takes a
\* connection, runs its queries (one step) and releases it in its finally;
\* the handler then takes a connection of its own for the options.
QuestionStatement(p, ok) ==
    LET r == requests[p] IN
    /\ r.op = "questions"
    /\ UNCHANGED <<tables, response>>
    /\ \/ /\ r.pc = "selectorConnection"
          /\ IF ok THEN GetConnection(p, "selectorQueries") ELSE End(p, 500)
       \/ /\ r.pc = "selectorQueries"
          /\ IF ~ok THEN ReleaseAndEnd(p, 500)
             ELSE \E q \in getAdaptiveQuestion(Store, r.userId, r.categoryId) :
                    /\ pool' = pool - 1
                    /\ requests' =
                         [requests EXCEPT
                            ![p].held = @ - 1,
                            ![p].question = q,
                            ![p].status = IF q = NoQuestion THEN 200 ELSE 0,
                            ![p].pc = IF q = NoQuestion THEN "done"
                                      ELSE "getConnection"]
       \/ /\ r.pc = "getConnection"
          /\ IF ok THEN GetConnection(p, "selectOptions") ELSE Finally(p, 500)
       \/ /\ r.pc = "selectOptions"
          /\ Finally(p, IF ok THEN 200 ELSE 500)

\* POST /api/users as it starts; user is the id of the row it returns.
UserRequest(name) ==
    [op |-> "users", pc |-> "validate", held |-> 0, status |-> 0,
     name |-> name, user |-> Missing]

\* POST /api/users statement by statement, every statement succeeding.
UserStatement(p) ==
    LET r == requests[p]
        existing == {u \in DOMAIN users : users[u].name = trim(r.name)}
    IN
    /\ r.op = "users"
    /\ UNCHANGED response
    /\ \/ /\ r.pc = "validate"
          /\ UNCHANGED tables
          /\ IF trim(r.name) = <<>> THEN End(p, 400)
             ELSE GetConnection(p, "selectExisting")
       \/ /\ r.pc = "selectExisting"
          /\ UNCHANGED <<tables, pool>>
          /\ IF existing # {}
             THEN \E u \in existing :
                    requests' = [requests EXCEPT ![p].user = u,
                                                 ![p].pc = "updateLastActive"]
             ELSE requests' = [requests EXCEPT ![p].pc = "insertUser"]
       \/ /\ r.pc = "updateLastActive"
          /\ UNCHANGED tables
          /\ Finally(p, 200)
       \/ /\ r.pc = "insertUser"
          \* users.name has no unique key: the INSERT always succeeds
          /\ users' = Put(users, NextUserId, NewUserRow(trim(r.name)))
          /\ UNCHANGED <<question_attempts, attempt_ids, user_progress,
                         user_question_type_performance, user_badges, pool>>
          /\ requests' = [requests EXCEPT ![p].user = NextUserId,
                                          ![p].pc = "selectNew"]
       \/ /\ r.pc = "selectNew"
          /\ UNCHANGED tables
          /\ Finally(p, 201)

\* POST /api/reset-progress as it starts.
ResetRequest(u, c) ==
    [op |-> "reset", pc |-> "validate", held |-> 0, status |-> 0,
     userId |-> u, categoryId |-> c]

\* POST /api/reset-progress: the validation, the connection, and the
\* transaction from beginTransaction to commit as one step.
ResetStatement(p) ==
    LET r == requests[p] IN
    /\ r.op = "reset"
    /\ UNCHANGED response
    /\ \/ /\ r.pc = "validate"
          /\ UNCHANGED tables
          /\ IF r.userId = Missing \/ r.categoryId = Missing THEN End(p, 400)
             ELSE GetConnection(p, "transaction")
       \/ /\ r.pc = "transaction"
          /\ Commit(resetProgress(Store, r.userId, r.categoryId, NoFailure).db)
          /\ Finally(p, 200)

---------------------------------------------------------------------------
\* Specifications

\* POST /api/answers, every store statement succeeding.
Answer ==
    \E u \in UserIdInputs, q \in QuestionInputs :
      \E a \in OptionInputs(q) :
        /\ attempt_ids < MaxAttempts
        /\ SubmitAnswer(u, q, a, NoFailure, 0)

\* POST /api/reset-progress, every store statement succeeding.
Reset ==
    \E u \in UserIdInputs \cup {Missing}, c \in Categories \cup {Missing} :
      ResetProgress(u, c, NoFailure)

Register == \E name \in NameInputs : CreateUser(name)

Select == \E u \in UserIdInputs, c \in Categories : GetQuestion(u, c)

\* Requests served while the store is available.
Next ==
    \/ Register
    \/ Select
    \/ Answer
    \/ Reset

Spec == Init /\ [][Next]_vars

\* POST /api/reset-progress with a store statement throwing.
ResetFailure ==
    \E u \in UserIdInputs, c \in Categories :
      \E fail \in ResetFailPoints \ {NoFailure} : ResetProgress(u, c, fail)

\* Requests served while statements of the reset may fail.
NextResetFault ==
    \/ Next
    \/ ResetFailure

SpecResetFault == Init /\ [][NextResetFault]_vars

\* POST /api/answers, any statement of the handler or of checkAndAwardBadges
\* succeeding or throwing.
AnswerOrFail ==
    \E u \in UserIdInputs, q \in QuestionInputs :
      \E a \in OptionInputs(q), fail \in AnswerFailPoints :
        \E bfail \in (IF fail = NoFailure THEN 0..Cardinality(Badges) ELSE {0}) :
          /\ attempt_ids < MaxFaultAttempts
          /\ SubmitAnswer(u, q, a, fail, bfail)

\* Requests served by a store any statement of which may fail.
NextFault ==
    \/ Register
    \/ Select
    \/ AnswerOrFail
    \/ Reset
    \/ ResetFailure

SpecFault == Init /\ [][NextFault]_vars

\* The quiz as the client plays it: it fetches the next question of a category
\* and answers the question it was served with one of that question's options.
Fetch == \E u \in DOMAIN users, c \in Categories : GetQuestion(u, c)

AnswerServed ==
    /\ response.op = "questions"
    /\ response.question # NoQuestion
    /\ \E a \in {o \in AnswerOptions : option_question_id(o) = response.question} :
         SubmitAnswer(response.userId, response.question, a, NoFailure, 0)

NextPlay ==
    \/ Register
    \/ Fetch
    \/ AnswerServed

SpecPlay == Init /\ [][NextPlay]_vars

\* POST /api/answers in which checkAndAwardBadges gets no connection.
AnswerAwardFailure ==
    \E u \in UserIdInputs, q \in QuestionInputs :
      \E a \in OptionInputs(q) :
        /\ attempt_ids < MaxAttempts
        /\ SubmitAnswer(u, q, a, StmtAwardConnection, 0)

\* checkAndAwardBadges(userId) called on its own; bfail = 0 when no statement
\* of the call fails.
AwardBadges ==
    \E u \in UserIdInputs, bfail \in 0..Cardinality(Badges) :
      LET r == checkAndAwardBadges(Store, u, bfail)
      IN /\ Commit(r.db)
         /\ response' = [op |-> "badges", userId |-> u,
                         newBadges |-> r.newBadges, failed |-> bfail # 0]
         /\ UNCHANGED serving

\* POST /api/reset-progress of an existing user, every statement succeeding.
ResetOwn ==
    \E u \in DOMAIN users, c \in Categories : ResetProgress(u, c, NoFailure)

\* The requests that write the store, and direct calls of the badge awarder,
\* which may fail.
NextBadges ==
    \/ Register
    \/ Answer
    \/ ResetOwn
    \/ AnswerAwardFailure
    \/ AwardBadges

SpecBadges == Init /\ [][NextBadges]_vars

\* Bound: attempts ever logged while requests are served statement by
\* statement.
MaxServedAttempts == 1

\* The answer submissions in flight.
AnswersInFlight ==
    {p \in Procs : requests[p].op = "answers" /\ requests[p].pc # "done"}

\* A POST /api/answers request arrives.
AnswerArrives(p) ==
    \E u \in UserIdInputs, q \in {1, Unknown}, a \in {2, Unknown} :
      /\ Listening
      /\ attempt_ids + Cardinality(AnswersInFlight) < MaxServedAttempts
      /\ Begin(p, AnswerRequest(u, q, a))

\* A GET /api/questions request arrives.
QuestionArrives(p) ==
    \E u \in UserIdInputs, c \in Categories :
      /\ Listening
      /\ Begin(p, QuestionRequest(u, c))

\* Requests served statement by statement, any statement succeeding or
\* throwing, after the startup connection test.
NextPool ==
    \/ Register
    \/ \E p \in Procs, ok \in BOOLEAN : StartupTest(p, ok)
    \/ \E p \in Procs, ok \in BOOLEAN : Health(p, ok)
    \/ \E p \in Procs : AnswerArrives(p)
    \/ \E p \in Procs, ok \in BOOLEAN : AnswerStatement(p, ok)
    \/ \E p \in Procs, ok \in BOOLEAN : AwardStatement(p, ok)
    \/ \E p \in Procs : QuestionArrives(p)
    \/ \E p \in Procs, ok \in BOOLEAN : QuestionStatement(p, ok)

SpecPool == Init /\ [][NextPool]_vars

\* A POST /api/users request arrives at a slot that served none before.
UserArrives(p) ==
    \E name \in NameInputs :
      /\ requests[p].op = "idle"
      /\ Begin(p, UserRequest(name))

\* A POST /api/answers request of an existing user arrives at a slot that
\* served none before.
SubmissionArrives(p) ==
    \E u \in DOMAIN users, q \in {1, 2} :
      \E a \in {o \in AnswerOptions : option_question_id(o) = q} :
        /\ requests[p].op = "idle"
        /\ Begin(p, AnswerRequest(u, q, a))

\* Two requests served concurrently, their statements interleaved, every
\* statement succeeding.
NextRace ==
    \/ Register
    \/ \E p \in Procs : UserArrives(p)
    \/ \E p \in Procs : UserStatement(p)
    \/ \E p \in Procs : SubmissionArrives(p)
    \/ \E p \in Procs : AnswerStatement(p, TRUE)
    \/ \E p \in Procs : AwardStatement(p, TRUE)

SpecRace == Init /\ [][NextRace]_vars

\* A POST /api/users request arrives.
RegistrationArrives(p) ==
    \E name \in NameInputs : Begin(p, UserRequest(name))

\* A POST /api/reset-progress request arrives.
ResetArrives(p) ==
    \E u \in {1, Missing}, c \in {1, Missing} : Begin(p, ResetRequest(u, c))

\* POST /api/answers of an existing user, every statement succeeding.
AnswerOwn ==
    \E u \in DOMAIN users, q \in {1, 6} :
      \E a \in {o \in AnswerOptions : option_question_id(o) = q} :
        /\ attempt_ids < MaxServedAttempts
        /\ SubmitAnswer(u, q, a, NoFailure, 0)

\* Registrations and resets served statement by statement, valid and invalid,
\* next to answer submissions.
NextValidate ==
    \/ AnswerOwn
    \/ \E p \in Procs : RegistrationArrives(p)
    \/ \E p \in Procs : UserStatement(p)
    \/ \E p \in Procs : ResetArrives(p)
    \/ \E p \in Procs : ResetStatement(p)

SpecValidate == Init /\ [][NextValidate]_vars

\* The names of two users.
PairNames == {<<"a">>, <<"b">>}

RegisterPair == \E name \in PairNames : CreateUser(name)

\* A POST /api/answers request of an existing user with the correct answer
\* of question 1 arrives at a slot that served none before.
CrowdArrives(p) ==
    \E u \in DOMAIN users :
      \E a \in {o \in AnswerOptions : option_question_id(o) = 1 /\ is_correct(o)} :
        /\ requests[p].op = "idle"
        /\ Begin(p, AnswerRequest(u, 1, a))

\* As many submissions as the pool has connections served concurrently,
\* their statements interleaved, every statement succeeding.
NextCrowd ==
    \/ RegisterPair
    \/ \E p \in Slots : CrowdArrives(p)
    \/ \E p \in Slots : AnswerStatement(p, TRUE)
    \/ \E p \in Slots : AwardStatement(p, TRUE)

SpecCrowd == Init /\ [][NextCrowd]_vars

\* A POST /api/reset-progress request of an existing user arrives at a slot
\* that served none before.
ResetOnceArrives(p) ==
    \E u \in DOMAIN users, c \in Categories :
      /\ requests[p].op = "idle"
      /\ Begin(p, ResetRequest(u, c))

\* A submission and a reset served concurrently, their statements
\* interleaved, every statement succeeding.
NextMixed ==
    \/ RegisterPair
    \/ \E p \in Procs : SubmissionArrives(p)
    \/ \E p \in Procs : AnswerStatement(p, TRUE)
    \/ \E p \in Procs : AwardStatement(p, TRUE)
    \/ \E p \in Procs : ResetOnceArrives(p)
    \/ \E p \in Procs : ResetStatement(p)

SpecMixed == Init /\ [][NextMixed]_vars

\* POST /api/answers of one of two users, every statement succeeding.
AnswerOfTwo ==
    \E u \in DOMAIN users, q \in {1, 6} :
      \E a \in {o \in AnswerOptions : option_question_id(o) = q} :
        /\ attempt_ids < MaxAttempts
        /\ SubmitAnswer(u, q, a, NoFailure, 0)

\* The requests of two users that write the store, one after another.
NextTwo ==
    \/ RegisterPair
    \/ AnswerOfTwo
    \/ ResetOwn

SpecTwo == Init /\ [][NextTwo]_vars

---------------------------------------------------------------------------
\* Properties

\* C2: a question the selector returns for a user has no attempt by that user
\* in the attempt log, correct or incorrect.
NoRepeatServing ==
    (response.op = "questions" /\ response.question # NoQuestion) =>
        \A r \in DOMAIN question_attempts :
            ~(r.user_id = response.userId /\ r.question_id = response.question)

\* A question is served in a category in which the user has answered another
\* question incorrectly.
NoRepeatServingWitness ==
    /\ response.op = "questions"
    /\ response.question # NoQuestion
    /\ \E r \in DOMAIN question_attempts :
         /\ r.user_id = response.userId
         /\ category_id(r.question_id) = response.categoryId
         /\ ~r.is_correct

\* C4: best_streak of a user never decreases and is at least current_streak in
\* every state, across answer submissions and resets.
StreakMonotonic ==
    [][\A u \in DOMAIN users :
          /\ users[u].best_streak >= users[u].current_streak
          /\ u \in DOMAIN users'
          /\ users'[u].best_streak >= users[u].best_streak
          /\ users'[u].best_streak >= users'[u].current_streak]_vars

\* A streak was built, then broken by an incorrect answer, and a category was
\* reset.
StreakMonotonicWitness ==
    /\ response.op = "reset"
    /\ response.status = 200
    /\ response.userId \in DOMAIN users
    /\ users[response.userId].best_streak >= 2
    /\ users[response.userId].current_streak = 0

\* C5: with a struggling type T and an easier type E (other than T) that has an
\* active unattempted question in the category, the selector returns a question
\* of an easier type and not of a struggling type.
StrugglingRetarget ==
    (/\ response.op = "questions"
     /\ \E T \in QuestionTypes, E \in EasierTypes :
          /\ T # E
          /\ IsStruggling(Store, response.userId, T)
          /\ TargetQuestions(Store, response.userId, response.categoryId, E) # {})
    => /\ response.question # NoQuestion
       /\ question_type_id(response.question) \in EasierTypes
       /\ ~IsStruggling(Store, response.userId, question_type_id(response.question))

\* C6: every logged attempt names an existing question and an existing option
\* of that question; an option of another question is never scored.
OptionBelongsToQuestion ==
    \A r \in DOMAIN question_attempts :
        /\ r.question_id \in Questions
        /\ r.selected_answer_id \in AnswerOptions
        /\ option_question_id(r.selected_answer_id) = r.question_id

\* C9: a successful reset decrements total_attempts and correct_attempts of
\* each of the user's performance rows by the number of deleted attempts of
\* that type, and by the number of those that were correct.
ResetDecrementsPerformance ==
    [][(response'.op = "reset" /\ response'.status = 200) =>
        \A k \in DOMAIN user_question_type_performance :
            k[1] = response'.userId =>
              /\ k \in DOMAIN user_question_type_performance'
              /\ user_question_type_performance'[k].total_attempts =
                   user_question_type_performance[k].total_attempts
                     - CategoryTypeCount(Store, response'.userId,
                                         response'.categoryId, k[2], FALSE)
              /\ user_question_type_performance'[k].correct_attempts =
                   user_question_type_performance[k].correct_attempts
                     - CategoryTypeCount(Store, response'.userId,
                                         response'.categoryId, k[2], TRUE)]_vars

\* C10: a reset in which a statement fails answers with an error and leaves
\* the attempt log, user_progress, user_question_type_performance, users (and
\* user_badges) as they were before the call.
ResetAtomic ==
    [][(response'.op = "reset" /\ response'.status = 500) =>
          UNCHANGED <<users, question_attempts, user_progress,
                      user_question_type_performance, user_badges>>]_vars

\* A reset failed for a user and category that has attempts and a progress
\* row with points to roll back to.
ResetAtomicWitness ==
    /\ response.op = "reset"
    /\ response.status = 500
    /\ <<response.userId, response.categoryId>> \in DOMAIN user_progress
    /\ user_progress[<<response.userId, response.categoryId>>].points_earned > 0
    /\ \E r \in DOMAIN question_attempts :
         InCategory(r, response.userId, response.categoryId)

\* C1: an answer submission that ends in an error leaves every row as it was:
\* no attempt logged, users, user_progress, user_question_type_performance
\* (and user_badges) unchanged.
AnswerAtomic ==
    [][(response'.op = "answers" /\ response'.status = 500) =>
          UNCHANGED <<users, question_attempts, user_progress,
                      user_question_type_performance, user_badges>>]_vars

\* C3: for every user_progress row, is_completed is true exactly when
\* questions_answered has reached the category's total_questions.
CompletionInvariant ==
    \A k \in DOMAIN user_progress :
        user_progress[k].is_completed <=>
            (user_progress[k].questions_answered >= total_questions(k[2]))

\* The category_complete badges of category c.
CompletionBadges(c) ==
    {b \in Badges : /\ BadgeRow(b).requirement_type = "category_complete"
                    /\ BadgeRow(b).category_id = c}

\* C8: while a user has only answered correctly, category 1 (5 questions) is
\* completed exactly when the user's 5th question of it is answered, and its
\* category_complete badge is in newBadges of exactly that response.
CompleteOnFifthAnswer ==
    \A u \in DOMAIN users :
        LET mine == {r \in DOMAIN question_attempts : r.user_id = u}
            answered == Cardinality({r.question_id : r \in
                            {m \in mine : category_id(m.question_id) = 1}})
            inNewBadges == \E i \in DOMAIN response.newBadges :
                              response.newBadges[i] \in CompletionBadges(1)
        IN (/\ \A r \in mine : r.is_correct /\ question_attempts[r] = 1
            /\ <<u, 1>> \in DOMAIN user_progress)
           => /\ user_progress[<<u, 1>>].is_completed <=> (answered = 5)
              /\ (/\ response.op = "answers"
                  /\ response.status = 200
                  /\ response.userId = u)
                 => (inNewBadges <=>
                       (answered = 5 /\ category_id(response.questionId) = 1))

\* C7: after a call of checkAndAwardBadges that ran without a failing
\* statement, a second call for the same user returns an empty list and
\* leaves the store as it is.
AwardIdempotent ==
    (response.op = "badges" /\ ~response.failed) =>
        /\ checkAndAwardBadges(Store, response.userId, 0).newBadges = <<>>
        /\ checkAndAwardBadges(Store, response.userId, 0).db = Store

\* A call of checkAndAwardBadges has just awarded badges.
AwardIdempotentWitness ==
    /\ response.op = "badges"
    /\ ~response.failed
    /\ response.newBadges # <<>>
    /\ \A i \in DOMAIN response.newBadges :
         <<response.userId, response.newBadges[i]>> \in user_badges

\* C11: after a successful reset of (user, category) the user's total_points
\* is the sum of points_earned over the user's remaining user_progress rows,
\* the (user, category) row is gone and the log holds no attempt of the user
\* on a question of the category.
ResetRecomputesPoints ==
    (response.op = "reset" /\ response.status = 200) =>
        /\ <<response.userId, response.categoryId>> \notin DOMAIN user_progress
        /\ \A r \in DOMAIN question_attempts :
             ~(/\ r.user_id = response.userId
               /\ category_id(r.question_id) = response.categoryId)
        /\ response.userId \in DOMAIN users =>
             users[response.userId].total_points =
                SumPoints(user_progress,
                          {k \in DOMAIN user_progress : k[1] = response.userId})

\* A reset took away the points of one category (two correct answers gave
\* best_streak 3) and left those of the other.
ResetRecomputesPointsWitness ==
    /\ response.op = "reset"
    /\ response.status = 200
    /\ response.userId \in DOMAIN users
    /\ users[response.userId].best_streak >= 3
    /\ users[response.userId].total_points = 15
    /\ \E k \in DOMAIN user_progress :
         k[1] = response.userId /\ user_progress[k].points_earned = 15

\* C12: every user_progress row is reconstructable from the attempt log:
\* questions_answered is the number of the user's logged attempts on questions
\* of the category, correct_answers the number of those that are correct and
\* points_earned the sum of the points of the correct ones.
ProgressFromLog ==
    \A k \in DOMAIN user_progress :
        LET mine == {r \in DOMAIN question_attempts : InCategory(r, k[1], k[2])}
            right == {r \in mine : r.is_correct}
        IN /\ user_progress[k].questions_answered =
                BagCardinality(Restrict(question_attempts, mine))
           /\ user_progress[k].correct_answers =
                BagCardinality(Restrict(question_attempts, right))
           /\ user_progress[k].points_earned =
                BagCardinality([r \in right |->
                                  question_attempts[r] * points(r.question_id)])

\* C13: an answer submission, the first of a question type included, leaves
\* the user's performance row of that type with total_attempts incremented by
\* 1, correct_attempts by 1 if the answer is correct, and success_rate equal
\* to the new correct_attempts / new total_attempts * 100.
PerformanceRecomputed ==
    [][(response'.op = "answers" /\ response'.status = 200) =>
        LET k == <<response'.userId, question_type_id(response'.questionId)>>
            old == IF k \in DOMAIN user_question_type_performance
                   THEN user_question_type_performance[k]
                   ELSE [total_attempts |-> 0, correct_attempts |-> 0]
            one == IF response'.isCorrect THEN 1 ELSE 0
        IN /\ k \in DOMAIN user_question_type_performance'
           /\ user_question_type_performance'[k].total_attempts =
                old.total_attempts + 1
           /\ user_question_type_performance'[k].correct_attempts =
                old.correct_attempts + one
           /\ user_question_type_performance'[k].success_rate =
                Percent(user_question_type_performance'[k].correct_attempts,
                        user_question_type_performance'[k].total_attempts)]_vars

\* C14: a request that has ended holds no connection: every connection a
\* handler or helper took from the pool was released on the exit path taken.
ReleasedOnExit ==
    \A p \in Procs : requests[p].pc = "done" => requests[p].held = 0

\* C15: a request holds at most one connection of the pool at any time.
OneConnectionPerRequest ==
    \A p \in Procs : requests[p].held <= 1

\* C16: concurrent answer submissions are serialized: in every state the
\* store is the one that some of the submissions taken up, run one after the
\* other as a whole, leave (no submission is applied in part), and when two
\* submissions have ended the store and the newBadges each returned are those
\* of running the two one after the other in some order.
SubmissionsSerialized ==
    LET A == {p \in Procs : requests[p].op = "answers"}
        fresh == [users |-> [u \in DOMAIN users |-> NewUserRow(users[u].name)],
                  question_attempts |-> EmptyBag, attempt_ids |-> 0,
                  user_progress |-> NoRows,
                  user_question_type_performance |-> NoRows,
                  user_badges |-> {}]
        run(db, p) == submitAnswer(db, requests[p].userId,
                                   requests[p].questionId,
                                   requests[p].selectedAnswerId, NoFailure, 0)
    IN /\ \/ Store = fresh
          \/ \E p \in A : Store = run(fresh, p).db
          \/ \E p, o \in A : p # o /\ Store = run(run(fresh, p).db, o).db
       /\ (\A p \in Procs : requests[p].op = "answers" /\ requests[p].pc = "done")
          => \E p, o \in Procs :
               /\ p # o
               /\ Store = run(run(fresh, p).db, o).db
               /\ requests[p].newBadges = run(fresh, p).response.newBadges
               /\ requests[o].newBadges =
                    run(run(fresh, p).db, o).response.newBadges

\* C17: user names are unique: no two users rows have the same name, and the
\* POST /api/users calls made with the same trimmed name return the same user.
NamesUnique ==
    /\ \A u, v \in DOMAIN users : users[u].name = users[v].name => u = v
    /\ \A p, o \in Procs :
         (/\ requests[p].op = "users" /\ requests[p].pc = "done"
          /\ requests[o].op = "users" /\ requests[o].pc = "done"
          /\ requests[p].status \in {200, 201}
          /\ requests[o].status \in {200, 201}
          /\ trim(requests[p].name) = trim(requests[o].name))
         => requests[p].user = requests[o].user

\* C18: the list a call of checkAndAwardBadges returns is exactly the set of
\* badges for which the call inserted a user_badges row, on every exit path,
\* the one through the catch block included.
ReturnsInsertedBadges ==
    [][response'.op = "badges" =>
         {response'.newBadges[i] : i \in DOMAIN response'.newBadges} =
            {b \in Badges : <<response'.userId, b>> \in user_badges' \ user_badges}
      ]_vars

\* C19: a POST /api/answers request that names an unknown user, an unknown
\* question or an unknown answer option is answered with a 4xx status and
\* changes no table.
UnknownRejected ==
    [][\A u \in UserIdInputs, q \in QuestionInputs :
         \A a \in OptionInputs(q) :
           (/\ u \notin DOMAIN users \/ q \notin Questions \/ a \notin AnswerOptions
            /\ SubmitAnswer(u, q, a, NoFailure, 0))
           => /\ response'.status \in 400..499
              /\ UNCHANGED tables]_vars

\* C20: POST /api/users with a missing or blank name and POST
\* /api/reset-progress with a missing userId or categoryId end in their first
\* step with a 4xx status, having taken no connection and changed no table.
ValidationRejected ==
    [][\A p \in Procs :
         (/\ requests[p].pc = "validate"
          /\ requests'[p] # requests[p]
          /\ \/ /\ requests[p].op = "users"
                /\ \A i \in DOMAIN requests[p].name : requests[p].name[i] = " "
             \/ /\ requests[p].op = "reset"
                /\ requests[p].userId = Missing \/ requests[p].categoryId = Missing)
         => /\ requests'[p].pc = "done"
            /\ requests'[p].status \in 400..499
            /\ requests'[p].held = 0
            /\ UNCHANGED <<tables, pool>>]_vars

\* A registration with a blank name and a reset without a userId have been
\* rejected while the store holds a user with an attempt and points.
ValidationRejectedWitness ==
    /\ \E p \in Procs :
         /\ requests[p].op = "users" /\ requests[p].pc = "done"
         /\ requests[p].name = <<" ">> /\ requests[p].status = 400
    /\ \E p \in Procs :
         /\ requests[p].op = "reset" /\ requests[p].pc = "done"
         /\ requests[p].userId = Missing /\ requests[p].status = 400
    /\ \E u \in DOMAIN users : users[u].total_points > 0
    /\ question_attempts # EmptyBag

\* C21: a correct answer submission adds the question's points to
\* total_points, increases current_streak by exactly 1 and sets best_streak to
\* the maximum of the old best_streak and the new current_streak.
CorrectAnswerStats ==
    [][(/\ response'.op = "answers" /\ response'.status = 200
        /\ response'.isCorrect)
       => LET u == response'.userId IN
          /\ users'[u].total_points =
               users[u].total_points + points(response'.questionId)
          /\ users'[u].current_streak = users[u].current_streak + 1
          /\ users'[u].best_streak =
               Max(users[u].best_streak, users'[u].current_streak)]_vars

\* C22: an incorrect answer submission sets current_streak to 0, earns 0
\* points and leaves total_points and best_streak as they were, while an
\* attempt is appended and questions_answered and total_attempts grow by 1.
IncorrectAnswerFrame ==
    [][(/\ response'.op = "answers" /\ response'.status = 200
        /\ ~response'.isCorrect)
       => LET u == response'.userId
              q == response'.questionId
              pk == <<u, category_id(q)>>
              tk == <<u, question_type_id(q)>>
              answered == IF pk \in DOMAIN user_progress
                          THEN user_progress[pk].questions_answered ELSE 0
              attempts == IF tk \in DOMAIN user_question_type_performance
                          THEN user_question_type_performance[tk].total_attempts
                          ELSE 0
          IN
          /\ response'.pointsEarned = 0
          /\ users'[u].current_streak = 0
          /\ users'[u].total_points = users[u].total_points
          /\ users'[u].best_streak = users[u].best_streak
          /\ BagCardinality(question_attempts') =
               BagCardinality(question_attempts) + 1
          /\ \E r \in DOMAIN question_attempts' :
               /\ r.user_id = u /\ r.question_id = q /\ ~r.is_correct
               /\ question_attempts' = question_attempts (+) SetToBag({r})
          /\ user_progress'[pk].questions_answered = answered + 1
          /\ user_question_type_performance'[tk].total_attempts = attempts + 1
      ]_vars

\* An incorrect answer has broken a streak of a user who has points.
IncorrectAnswerFrameWitness ==
    /\ response.op = "answers"
    /\ response.status = 200
    /\ ~response.isCorrect
    /\ users[response.userId].current_streak = 0
    /\ users[response.userId].best_streak >= 2
    /\ users[response.userId].total_points > 0

\* C23: the selector returns none exactly when the category has no active
\* question unattempted by the user; otherwise it returns an active
\* unattempted question of the category, of the target type if the category
\* has such a question of that type.
SelectorExhaustive ==
    /\ (response.op = "questions") =>
         LET left == {q \in Questions :
                        /\ category_id(q) = response.categoryId
                        /\ is_active(q)
                        /\ \A r \in DOMAIN question_attempts :
                             ~(r.user_id = response.userId /\ r.question_id = q)}
         IN /\ response.question = NoQuestion <=> left = {}
            /\ response.question # NoQuestion => response.question \in left
    /\ \A u \in UserIdInputs, c \in Categories :
         \A t \in TargetTypes(Store, u) :
           LET left == {q \in Questions :
                          /\ category_id(q) = c
                          /\ is_active(q)
                          /\ \A r \in DOMAIN question_attempts :
                               ~(r.user_id = u /\ r.question_id = q)}
               ofType == {q \in left : question_type_id(q) = t}
               got == questionsOfTarget(Store, u, c, t)
           IN /\ got # {}
              /\ ofType # {} => got \subseteq ofType
              /\ (ofType = {} /\ left # {}) => got \subseteq left
              /\ left = {} <=> got = {NoQuestion}

\* The selector has returned a question of a type that is no target type (a
\* row of the fallback query) to a user who has attempted another question of
\* the category.
SelectorExhaustiveWitness ==
    /\ response.op = "questions"
    /\ response.question # NoQuestion
    /\ question_type_id(response.question) \notin TargetTypes(Store, response.userId)
    /\ \E r \in DOMAIN question_attempts :
         /\ r.user_id = response.userId
         /\ category_id(r.question_id) = response.categoryId

\* C24: when the user has no struggling type, every type the selector may
\* target is minimal in the order by (success_rate, total_attempts) ascending
\* with a never-attempted type counted as (0, 0), and if the category has an
\* active unattempted question of the target type the question returned is of
\* that type.
DefaultTargetMinimal ==
    \A u \in UserIdInputs :
      (\A s \in QuestionTypes : ~IsStruggling(Store, u, s)) =>
        \A t \in TargetTypes(Store, u) :
          /\ \A t2 \in QuestionTypes :
               \/ SuccessRate(Store, u, t) < SuccessRate(Store, u, t2)
               \/ /\ SuccessRate(Store, u, t) = SuccessRate(Store, u, t2)
                  /\ TotalAttempts(Store, u, t) <= TotalAttempts(Store, u, t2)
          /\ \A c \in Categories :
               (\E q \in Questions :
                   /\ category_id(q) = c /\ question_type_id(q) = t /\ is_active(q)
                   /\ \A r \in DOMAIN question_attempts :
                        ~(r.user_id = u /\ r.question_id = q))
               => \A q \in questionsOfTarget(Store, u, c, t) :
                    q # NoQuestion /\ question_type_id(q) = t

\* A user without a struggling type who has attempted multiple_choice is
\* served a question of the never-attempted type true_false.
DefaultTargetMinimalWitness ==
    /\ response.op = "questions"
    /\ response.question # NoQuestion
    /\ question_type_id(response.question) = 2
    /\ \A s \in QuestionTypes : ~IsStruggling(Store, response.userId, s)
    /\ <<response.userId, 1>> \in DOMAIN user_question_type_performance
    /\ <<response.userId, 2>> \notin DOMAIN user_question_type_performance
    /\ 2 \in TargetTypes(Store, response.userId)

ResetFrame ==
    [][(response'.op = "reset" /\ response'.status = 200) =>
        LET u == response'.userId
            c == response'.categoryId
            kept(log) == Restrict(log, {r \in DOMAIN log : ~InCategory(r, u, c)})
        IN /\ u \in DOMAIN users =>
                /\ users'[u].current_streak = users[u].current_streak
                /\ users'[u].best_streak = users[u].best_streak
           /\ user_badges' = user_badges
           /\ kept(question_attempts') = kept(question_attempts)
           /\ \A k \in DOMAIN user_progress \ {<<u, c>>} :
                k \in DOMAIN user_progress' /\ user_progress'[k] = user_progress[k]
           /\ DOMAIN users' = DOMAIN users
           /\ \A v \in DOMAIN users \ {u} : users'[v] = users[v]
           /\ DOMAIN user_question_type_performance' =
                DOMAIN user_question_type_performance
           /\ \A k \in DOMAIN user_question_type_performance :
                k[1] # u => user_question_type_performance'[k] =
                              user_question_type_performance[k]]_vars

\* A reset has taken one of two correct answers from a user who holds a
\* badge and keeps an attempt of the other category, while another user has
\* an attempt of the category that was reset.
ResetFrameWitness ==
    /\ response.op = "reset"
    /\ response.status = 200
    /\ response.userId \in DOMAIN users
    /\ users[response.userId].best_streak >= 3
    /\ users[response.userId].total_points = 15
    /\ \E b \in Badges : <<response.userId, b>> \in user_badges
    /\ \E r \in DOMAIN question_attempts :
         /\ r.user_id = response.userId
         /\ category_id(r.question_id) # response.categoryId
    /\ \E r \in DOMAIN question_attempts :
         /\ r.user_id # response.userId
         /\ category_id(r.question_id) = response.categoryId

\* The rows of user u in store db.
RowsOf(db, u) ==
    [users |-> db.users[u],
     question_attempts |->
        Restrict(db.question_attempts,
                 {r \in DOMAIN db.question_attempts : r.user_id = u}),
     user_progress |->
        Restrict(db.user_progress, {k \in DOMAIN db.user_progress : k[1] = u}),
     user_question_type_performance |->
        Restrict(db.user_question_type_performance,
                 {k \in DOMAIN db.user_question_type_performance : k[1] = u}),
     user_badges |-> {k \in db.user_badges : k[1] = u}]

\* Every connection of the pool is held by a submission that waits for a
\* further connection in checkAndAwardBadges.
AllWaiting ==
    /\ pool = connectionLimit
    /\ \A p \in Slots : /\ requests[p].op = "answers"
                        /\ requests[p].pc = "awardConnection"
                        /\ requests[p].held = 1

\* C27: requests of different users are independent: when the only request
\* of a user is one answer submission and it can go no further (it has ended,
\* or no request can take another step), the rows of that user are the ones
\* the submission leaves when it is served alone, whatever requests of other
\* users were served meanwhile.
IndependentOfOthers ==
    \A p \in Slots :
      LET u == requests[p].userId
          fresh == [users |-> [v \in DOMAIN users |-> NewUserRow(users[v].name)],
                    question_attempts |-> EmptyBag, attempt_ids |-> 0,
                    user_progress |-> NoRows,
                    user_question_type_performance |-> NoRows,
                    user_badges |-> {}]
          alone == submitAnswer(fresh, u, requests[p].questionId,
                                requests[p].selectedAnswerId, NoFailure, 0).db
      IN (/\ requests[p].op = "answers"
          /\ \A o \in Slots \ {p} :
               requests[o].op = "answers" => requests[o].userId # u
          /\ requests[p].pc = "done" \/ AllWaiting)
         => RowsOf(Store, u) = RowsOf(alone, u)

\* C29: the pool never runs dry under concurrent submissions: in no state are
\* all its connections held by submissions that each wait for a further
\* connection in checkAndAwardBadges.
NeverAllWaiting == ~AllWaiting

\* C28: in every state reached by answer submissions and category resets
\* that succeeded (no request is in flight and every request served was
\* answered 200), the total_points of every user is the sum of points_earned
\* over the user_progress rows of that user.
TotalPointsIsProgressSum ==
    (\A p \in Procs : requests[p].pc = "idle" \/
                      (requests[p].pc = "done" /\ requests[p].status = 200))
    => \A u \in DOMAIN users :
         users[u].total_points =
           SumPoints(user_progress, {k \in DOMAIN user_progress : k[1] = u})

\* C30: the attempt log holds at most one attempt per (user, question), and
\* questions_answered of a (user, category) never exceeds the category's
\* total_questions: a submission for a question the user has already
\* attempted adds no second attempt.
OneAttemptPerQuestion ==
    /\ \A r \in DOMAIN question_attempts : question_attempts[r] = 1
    /\ \A r, t \in DOMAIN question_attempts :
         (r.user_id = t.user_id /\ r.question_id = t.question_id) => r = t
    /\ \A k \in DOMAIN user_progress :
         user_progress[k].questions_answered <= total_questions(k[2])

====
